---- MODULE Spec2Model ----
(***************************************************************************)
(* Model of the sifra support pipeline: the capture (HAR) parser, the      *)
(* search-URL detector and parser, the log-search query builder with its   *)
(* triage rules, the code chunker and the embedding index.                 *)
(*                                                                         *)
(* Times are minutes on one clock.  Every timestamp string of one run is   *)
(* in the same ISO format, so the string order that min()/max() use is the *)
(* order of the minutes.                                                   *)
(***************************************************************************)
EXTENDS Integers, Sequences, FiniteSets, TLC

VARIABLES
    stage,        \* position of the ticket-analysis workflow
    ticket,       \* what the ticket reader handed over: auth keyword, HAR, URL
    harArgs,      \* the extract_uuids and find_errors arguments of har_parser
    urlDetect,    \* result of haystack_url_detector
    harOut,       \* result of har_parser
    searchParams, \* search_params the log agent built (with data_source_used)
    searches,     \* the haystack_search calls issued, in order
    logs,         \* status of the last haystack_search result
    triage,       \* the log agent's triage output
    codeOut,      \* output of the code-analysis task
    reply,        \* message handed to slack_replier
    file,         \* the file handed to the chunker
    chunks,       \* the chunks the chunker returned for it
    chunked,      \* the chunker has run on the file
    codebase,     \* the files _collect_files returns, in walk order
    pages,        \* the Confluence pages the loader returns
    collection,   \* the code_embeddings collection, in insertion order
    docs,         \* the confluence_docs collection, in insertion order
    codeRuns,     \* completed index_codebase runs
    docRuns,      \* completed index_confluence_pages runs
    embedName,    \* embedding_model_name of the running ConfluenceRAG
    queryOut,     \* what the last query returned
    upserts,      \* the collection.upsert calls of the last index run, in order
    requests,     \* the HEAD requests sent to resolve goto URLs, in order
    shortUrl,     \* the goto URL handed to expand_goto_url
    attempt,      \* position of expand_goto_url
    landed,       \* where its last request ended
    resolved,     \* what it returned
    tree,         \* the files under codebase_path, in os.walk order
    maxFiles,     \* the max_files argument of _collect_files (0: None)
    collected,    \* the files _collect_files returned
    walkDone,     \* _collect_files has returned
    lastMessageTs,  \* _last_message_ts of slack_tool (0: None)
    isSifraMention, \* _is_sifra_mention of slack_tool
    lastRead,     \* what the most recent slack_reader call got from Slack
    reads,        \* slack_reader calls made in this process
    posts,        \* the replies slack_replier posted, in order
    workflow,     \* what the last SifraAdvCrew.run returned
    space,        \* the page graph: child ids of each page, pages whose fetch fails
    calls,        \* the open fetch_recursive calls: page and children still to visit
    visited,      \* the visited set of get_all_descendant_pages
    fetched,      \* the page ids handed to get_page, in order
    allPages,     \* all_pages: the ids of the pages loaded, in order
    loading,      \* position of get_all_descendant_pages
    window        \* the while loop of _chunk_documents on one page

triageVars == <<stage, ticket, harArgs, urlDetect, harOut, searchParams, searches, logs,
                triage, codeOut, reply>>

chunkVars == <<file, chunks, chunked>>

indexVars == <<codebase, pages, collection, docs, codeRuns, docRuns, embedName, queryOut,
               upserts>>

resolveVars == <<requests, shortUrl, attempt, landed, resolved>>

walkVars == <<tree, maxFiles, collected, walkDone>>

slackVars == <<lastMessageTs, isSifraMention, lastRead, reads, posts, workflow>>

loadVars == <<space, calls, visited, fetched, allPages, loading>>

auxVars == <<walkVars, slackVars, loadVars, window>>

vars == <<triageVars, chunkVars, indexVars, resolveVars, auxVars>>

----------------------------------------------------------------------------
(* Bounds of the model *)

\* longest capture built from the entry alphabet
MaxEntries == 2

----------------------------------------------------------------------------
(* Program constants *)

FailStatus == 400
EntryLimit == 10
ShownUuids == 5
BufferMinutes == 30
LookbackDays == 7
ManualDays == 3

----------------------------------------------------------------------------
(* Small helpers *)

Min2(a, b) == IF a <= b THEN a ELSE b

SetMin(S) == CHOOSE x \in S : \A y \in S : x <= y

SetMax(S) == CHOOSE x \in S : \A y \in S : y <= x

Range(s) == {s[i] : i \in 1..Len(s)}

----------------------------------------------------------------------------
(* Captures: a HAR is the ordered list of its entries.  An entry carries   *)
(* its response status, its startedDateTime (0: the field is missing or    *)
(* empty) and the UUIDs found in its request URL, its correlation /        *)
(* request-id / trace headers and the first 1000 characters of its body.   *)

T1 == 1000
T2 == 1010
T3 == 1100
Created == 50000

Entry(st, at, ids) == [status |-> st, started |-> at, uuids |-> ids]

EntryAlphabet ==
    {Entry(st, p[1], p[2]) :
        st \in {200, 500},
        p \in {<<0, {}>>, <<T1, {"u1"}>>, <<T3, {"u2", "u3"}>>, <<T2, {}>>}}

RECURSIVE SeqsUpTo(_, _)
SeqsUpTo(S, n) ==
    IF n = 0 THEN {<<>>}
    ELSE LET shorter == SeqsUpTo(S, n - 1)
         IN  shorter \cup {Append(s, x) : s \in {t \in shorter : Len(t) = n - 1}, x \in S}

\* a capture whose single failed entry carries six UUIDs
ManyUuids == <<Entry(500, T1, {"u1", "u2", "u3", "u4", "u5", "u6"})>>

\* a capture with more failed entries than the parser looks at
LongCapture ==
    [i \in 1..(EntryLimit + 1) |->
        IF i <= EntryLimit THEN Entry(500, T1, {"u1"}) ELSE Entry(502, T3, {"u4"})]

Captures == SeqsUpTo(EntryAlphabet, MaxEntries) \cup {ManyUuids, LongCapture}

----------------------------------------------------------------------------
(* har_parser *)

FailedRequests(entries, find_errors) ==
    IF find_errors THEN SelectSeq(entries, LAMBDA e : e.status >= FailStatus)
    ELSE entries

\* every filtered entry looked at
LookedAll(failed) == failed

Looked(failed) == SubSeq(failed, 1, Min2(EntryLimit, Len(failed)))

Timestamps(failed) ==
    LET seen == Looked(failed)
    IN  {seen[i].started : i \in {j \in 1..Len(seen) : seen[j].started # 0}}

ExtractUuids(failed, extract_uuids) ==
    LET seen == Looked(failed)
    IN  IF extract_uuids THEN UNION {seen[i].uuids : i \in 1..Len(seen)} ELSE {}

\* list(extracted_uuids)[:5]: the first five in the set's iteration order,
\* which the string hashing of the run decides
ShownLists(ids) ==
    {S \in SUBSET ids : Cardinality(S) = Min2(ShownUuids, Cardinality(ids))}

HarBlank(st) ==
    [status |-> st, total |-> 0, failed |-> 0, found |-> 0,
     earliest |-> 0, latest |-> 0, uuids |-> {}]

\* the set of results HARParserTool._run can return for a capture
HarParserRun(entries, extract_uuids, find_errors) ==
    LET failed == FailedRequests(entries, find_errors)
        ids    == ExtractUuids(failed, extract_uuids)
        ts     == Timestamps(failed)
    IN  IF entries = <<>> THEN {HarBlank("no_entries")}
        ELSE IF failed = <<>>
             THEN {[HarBlank("no_failures") EXCEPT !.total = Len(entries)]}
        ELSE IF ids = {} THEN {HarBlank("no_uuids")}
        ELSE {[status |-> "parsed", total |-> Len(entries), failed |-> Len(failed),
               found |-> Cardinality(ids),
               earliest |-> IF ts = {} THEN 0 ELSE SetMin(ts),
               latest |-> IF ts = {} THEN 0 ELSE SetMax(ts),
               uuids |-> shown] : shown \in ShownLists(ids)}

----------------------------------------------------------------------------
(* Search URLs found in the ticket text.  A URL is "none", a discover URL *)
(* or a goto short link; hash: it has a '#' fragment; from/to: the values  *)
(* of the time:(from:'..',to:'..') sub-pattern (0: sub-pattern missing);   *)
(* query: the query:(language:lucene,query:'..') sub-pattern is missing    *)
(* ("none"), holds only whitespace or newlines ("blank"), holds a search   *)
(* text ("text") or a search text with the word login in it ("login").     *)

Url(k, h, f, t, q) == [kind |-> k, hash |-> h, from |-> f, to |-> t, query |-> q]

NoUrl == Url("none", FALSE, 0, 0, "none")

Urls ==
    {NoUrl}
    \cup {Url(k, TRUE, p[1], p[2], q) :
            k \in {"discover", "goto"},
            p \in {<<0, 0>>, <<T1, T3>>, <<T3, T1>>},
            q \in {"none", "blank", "text", "login"}}
    \cup {Url(k, FALSE, 0, 0, "none") : k \in {"discover", "goto"}}

\* what the single HEAD request of _parse_goto_url can end on
GotoOutcomes == {"discover", "login", "other", "error"}

NoParams == [parsed |-> FALSE, query |-> {}, gte |-> 0, lte |-> 0]

\* _parse_fragment: the three sub-patterns, each present or not
ParseFragment(u) ==
    [time  |-> IF u.from # 0 /\ u.to # 0 THEN <<u.from, u.to>> ELSE <<0, 0>>,
     query |-> u.query]

\* query-string clean-up of _parse_discover_url: newlines to blanks, runs of
\* whitespace collapsed, result stripped
CleanQuery(q) ==
    CASE q = "text"  -> {"urlq"}
      [] q = "login" -> {"urlq login"}
      [] OTHER       -> {}

ParseDiscoverUrl(u) ==
    IF ~u.hash THEN NoParams
    ELSE LET fp == ParseFragment(u)
         IN  [parsed |-> TRUE, query |-> CleanQuery(fp.query),
              gte |-> fp.time[1], lte |-> fp.time[2]]

\* "accounts.google.com" in final_url or "login" in final_url.lower()
LooksLikeLogin(outcome, u) == outcome = "login" \/ u.query = "login"

ParseGotoUrl(u, outcome) ==
    IF outcome = "error" THEN NoParams
    ELSE IF LooksLikeLogin(outcome, u) THEN NoParams
    ELSE IF outcome # "discover" THEN NoParams
    ELSE ParseDiscoverUrl(u)

ParseHaystackUrl(u, outcome) ==
    CASE u.kind = "goto"     -> ParseGotoUrl(u, outcome)
      [] u.kind = "discover" -> ParseDiscoverUrl(u)
      [] OTHER               -> NoParams

\* every parsed URL marked successful
DetectorStatusLoose(u, p) ==
    IF u.kind = "none" THEN "no_urls"
    ELSE IF p.parsed THEN "success"
    ELSE "failed"

\* the success test of HaystackURLDetectorTool._run
DetectorStatus(u, p) ==
    IF u.kind = "none" THEN "no_urls"
    ELSE IF p.parsed /\ p.query # {} /\ p.gte # 0 THEN "success"
    ELSE "failed"

\* _get_recommendation, from the number of URLs marked successful
GetRecommendation(successful_parses) ==
    IF successful_parses = 0 THEN "manual"
    ELSE IF successful_parses = 1 THEN "direct"
    ELSE "most_recent"

NoDetect == [status |-> "pending", params |-> NoParams, recommendation |-> "pending"]

\* the ticket text holds at most one URL
DetectorRun(u, outcome) ==
    LET p  == ParseHaystackUrl(u, outcome)
        st == DetectorStatus(u, p)
    IN  [status |-> st, params |-> p,
         recommendation |-> IF st = "no_urls" THEN "manual"
                            ELSE GetRecommendation(IF st = "success" THEN 1 ELSE 0)]

\* a HEAD request as sent: with the cookies or without, where it ended, and
\* whether the URL it ended on passes for a login page
Request(cookies, outcome, u) ==
    [cookies |-> cookies, outcome |-> outcome,
     login |-> outcome \notin {"timeout", "error"} /\ LooksLikeLogin(outcome, u)]

\* the requests _parse_goto_url sends for a URL: one, with the cookies of the
\* configuration
GotoRequests(u, outcome) ==
    IF u.kind = "goto" THEN <<Request(TRUE, outcome, u)>> ELSE <<>>

----------------------------------------------------------------------------
(* expand_goto_url: a HEAD request without cookies, a second one with the  *)
(* cookies when the first ended on a login page, then the checks on the    *)
(* final URL.                                                              *)

\* what a HEAD request with redirects can end on, or raise
ResolveOutcomes == {"discover", "login", "other", "timeout", "error"}

GotoUrls == {u \in Urls : u.kind = "goto"}

\* return None
NoFinal == NoUrl

\* the final URL handed back whatever it looks like
ResolveResultUnchecked(position, outcome, u) ==
    IF outcome \in {"timeout", "error"} THEN NoFinal ELSE [u EXCEPT !.kind = outcome]

\* the return value of expand_goto_url once its last request ended on outcome
ResolveResult(position, outcome, u) ==
    IF outcome \in {"timeout", "error"} THEN NoFinal
    ELSE IF position = "authenticated" /\ LooksLikeLogin(outcome, u) THEN NoFinal
    ELSE IF outcome # "discover" THEN NoFinal
    ELSE [u EXCEPT !.kind = "discover"]

ResolveIdle ==
    /\ requests = <<>>
    /\ shortUrl = NoUrl
    /\ attempt = "idle"
    /\ landed = "none"
    /\ resolved = NoFinal

WalkIdle ==
    /\ tree = <<>>
    /\ maxFiles = 0
    /\ collected = <<>>
    /\ walkDone = FALSE

\* slack_tool as imported: the module globals at their initial values
NoRead == [kind |-> "unread", ts |-> 0, mention |-> FALSE, ticketUrl |-> FALSE]

NoRun == [workflow |-> "pending", status |-> "pending", agents |-> {}, replied |-> FALSE,
          read |-> NoRead]

SlackIdle ==
    /\ lastMessageTs = 0
    /\ isSifraMention = FALSE
    /\ lastRead = NoRead
    /\ reads = 0
    /\ posts = <<>>
    /\ workflow = NoRun

LoadIdle ==
    /\ space = [kids |-> <<>>, failing |-> {}]
    /\ calls = <<>>
    /\ visited = {}
    /\ fetched = <<>>
    /\ allPages = <<>>
    /\ loading = "idle"

WindowIdle == window = [at |-> "idle"]

AuxIdle == WalkIdle /\ SlackIdle /\ LoadIdle /\ WindowIdle

ResolveInit ==
    /\ requests = <<>>
    /\ shortUrl \in GotoUrls
    /\ attempt = "start"
    /\ landed = "none"
    /\ resolved = NoFinal

\* STRATEGY 1: requests.head without cookies
SendPublic ==
    /\ attempt = "start"
    /\ \E o \in ResolveOutcomes :
          /\ requests' = Append(requests, Request(FALSE, o, shortUrl))
          /\ landed' = o
    /\ attempt' = "public"
    /\ UNCHANGED <<shortUrl, resolved, triageVars, chunkVars, indexVars, auxVars>>

\* STRATEGY 2: requests.head with cookies, after a login redirect
SendAuthenticated ==
    /\ attempt = "public"
    /\ landed \notin {"timeout", "error"}
    /\ LooksLikeLogin(landed, shortUrl)
    /\ \E o \in ResolveOutcomes :
          /\ requests' = Append(requests, Request(TRUE, o, shortUrl))
          /\ landed' = o
    /\ attempt' = "authenticated"
    /\ UNCHANGED <<shortUrl, resolved, triageVars, chunkVars, indexVars, auxVars>>

\* the checks on final_url and the except clauses
ReturnFinal ==
    /\ \/ attempt = "authenticated"
       \/ /\ attempt = "public"
          /\ landed \in {"timeout", "error"} \/ ~LooksLikeLogin(landed, shortUrl)
    /\ resolved' = ResolveResult(attempt, landed, shortUrl)
    /\ attempt' = "returned"
    /\ UNCHANGED <<requests, shortUrl, landed, triageVars, chunkVars, indexVars, auxVars>>

----------------------------------------------------------------------------
(* Documents of the code base.  A file is its path, its suffix and its     *)
(* lines (content.split('\n'), so at least one line).  A line is its kind, *)
(* its indentation and its width in characters, indentation included:      *)
(*   "class" / "module" / "def": a Ruby definition line,                   *)
(*   "key": a line with a ':' in it,  "comment": a line starting with '#', *)
(*   "text": any other line,  "blank": whitespace only.                    *)
(* Lines other than blank ones carry no trailing whitespace.               *)

Line(k, ind, w, nm) == [kind |-> k, indent |-> ind, width |-> w, name |-> nm]

IsDef(l) == l.kind \in {"class", "module", "def"}

\* line and len(line) > 0 and not line[0].isspace() and ':' in line
\* and not line.startswith('#')
IsTopKey(l) == l.kind = "key" /\ l.indent = 0 /\ l.width > 0

RECURSIVE SumWidth(_, _, _)
SumWidth(lines, a, b) ==
    IF a > b THEN 0
    ELSE IF a = b THEN lines[a].width
    ELSE SumWidth(lines, a, (a + b) \div 2) + SumWidth(lines, ((a + b) \div 2) + 1, b)

\* len('\n'.join(lines[a..b]))
TextLen(lines, a, b) == IF a > b THEN 0 ELSE SumWidth(lines, a, b) + (b - a)

NonBlank(lines, a, b) == {i \in a..b : lines[i].kind # "blank"}

\* len('\n'.join(lines[a..b]).strip())
StripLen(lines, a, b) ==
    LET nb == NonBlank(lines, a, b)
    IN  IF nb = {} THEN 0
        ELSE TextLen(lines, SetMin(nb), SetMax(nb)) - lines[SetMin(nb)].indent

\* an id that leaves the start line out
ChunkIdOfFile(path, sl) == path

\* f"{file_path}:{start_line}"
ChunkId(path, sl) == path \o ":" \o ToString(sl)

\* a chunk before the length test: lines from..to of the file are its text
\* (part 0: the name has no _part_N suffix)
Cand(path, sl, el, a, b, nm, part, ty) ==
    [id |-> ChunkId(path, sl), file |-> path, start_line |-> sl, end_line |-> el,
     from |-> a, to |-> b, name |-> [base |-> nm, part |-> part], type |-> ty]

MinCodeChars == 50
MinYamlChars == 30
ChunkLines == 50
OverlapLines == 5
YamlChunkSize == 2000
ChunkOverlap == 150
ChunkSize == 1200

RECURSIVE SelectLong(_, _, _)
SelectLong(cands, lines, least) ==
    IF cands = <<>> THEN <<>>
    ELSE LET c == Head(cands)
             rest == SelectLong(Tail(cands), lines, least)
         IN  IF StripLen(lines, c.from, c.to) > least THEN <<c>> \o rest ELSE rest

\* the window advanced by chunk_lines + overlap_lines instead of their difference
RECURSIVE GenericWindowsSkipping(_, _, _)
GenericWindowsSkipping(path, lines, i) ==
    IF i >= Len(lines) THEN <<>>
    ELSE <<Cand(path, i + 1, Min2(i + ChunkLines, Len(lines)),
                i + 1, Min2(i + ChunkLines, Len(lines)), "None", 0, "generic_chunk")>>
         \o GenericWindowsSkipping(path, lines, i + (ChunkLines + OverlapLines))

\* _chunk_generic_file: windows of 50 lines every 45 lines
RECURSIVE GenericWindows(_, _, _)
GenericWindows(path, lines, i) ==
    IF i >= Len(lines) THEN <<>>
    ELSE <<Cand(path, i + 1, Min2(i + ChunkLines, Len(lines)),
                i + 1, Min2(i + ChunkLines, Len(lines)), "None", 0, "generic_chunk")>>
         \o GenericWindows(path, lines, i + (ChunkLines - OverlapLines))

GenericCandidates(path, lines) == GenericWindows(path, lines, 0)

ChunkGenericFile(path, lines) ==
    SelectLong(GenericCandidates(path, lines), lines, MinCodeChars)

\* the loop of _chunk_ruby_file from line k on; cur is the first line of
\* current_chunk (0: current_chunk is empty)
RECURSIVE RubyLoop(_, _, _, _, _, _, _)
RubyLoop(path, lines, k, cur, sl, nm, ty) ==
    IF k > Len(lines)
    THEN IF cur # 0 THEN <<Cand(path, sl, Len(lines), cur, Len(lines), nm, 0, ty)>>
         ELSE <<>>
    ELSE IF IsDef(lines[k])
    THEN (IF cur # 0 THEN <<Cand(path, sl, k - 1, cur, k - 1, nm, 0, ty)>> ELSE <<>>)
         \o RubyLoop(path, lines, k + 1, k, k, lines[k].name,
                     IF lines[k].kind = "def" THEN "method" ELSE lines[k].kind)
    ELSE RubyLoop(path, lines, k + 1, IF cur = 0 THEN k ELSE cur, sl, nm, ty)

RubyCandidates(path, lines) == RubyLoop(path, lines, 1, 0, 0, "None", "None")

ChunkRubyFile(path, lines) ==
    LET kept == SelectLong(RubyCandidates(path, lines), lines, MinCodeChars)
    IN  IF kept = <<>> THEN ChunkGenericFile(path, lines) ELSE kept

\* _split_large_yaml_section over the section's lines a..b
RECURSIVE YamlParts(_, _, _, _, _, _)
YamlParts(path, a, b, sl, nm, i) ==
    IF i >= b - a + 1 THEN <<>>
    ELSE LET last == Min2(a + i + YamlChunkSize + ChunkOverlap - 1, b)
         IN  <<Cand(path, sl + i, sl + i + (last - (a + i) + 1), a + i, last,
                    nm, (i \div YamlChunkSize) + 1, "yaml_section_part")>>
             \o YamlParts(path, a, b, sl, nm, i + YamlChunkSize)

SplitLargeYamlSection(path, a, b, sl, nm) == YamlParts(path, a, b, sl, nm, 0)

\* what one finished section of _chunk_yaml_file contributes before the
\* length test: itself, or its parts when it is too large
YamlSection(path, lines, a, b, sl, el, nm, isLast) ==
    IF TextLen(lines, a, b) >= YamlChunkSize * 2
       /\ (isLast => StripLen(lines, a, b) > MinYamlChars)
    THEN SplitLargeYamlSection(path, a, b, sl, nm)
    ELSE <<Cand(path, sl, el, a, b, nm, 0, "yaml_section")>>

RECURSIVE YamlLoop(_, _, _, _, _, _)
YamlLoop(path, lines, k, cur, sl, nm) ==
    IF k > Len(lines)
    THEN IF cur # 0
         THEN YamlSection(path, lines, cur, Len(lines), sl, Len(lines), nm, TRUE)
         ELSE <<>>
    ELSE IF IsTopKey(lines[k])
    THEN (IF cur # 0
          THEN YamlSection(path, lines, cur, k - 1, sl, k - 1, nm, FALSE)
          ELSE <<>>)
         \o YamlLoop(path, lines, k + 1, k, k, lines[k].name)
    ELSE \* the lines up to the next top-level key are appended one after another
         LET keys == {j \in k..Len(lines) : IsTopKey(lines[j])}
         IN  YamlLoop(path, lines, IF keys = {} THEN Len(lines) + 1 ELSE SetMin(keys),
                      IF cur = 0 THEN k ELSE cur, sl, nm)

YamlCandidates(path, lines) == YamlLoop(path, lines, 1, 0, 0, "None")

ChunkYamlFile(path, lines) ==
    LET kept == SelectLong(YamlCandidates(path, lines), lines, MinYamlChars)
    IN  IF kept = <<>> THEN ChunkGenericFile(path, lines) ELSE kept

\* the strategy _extract_code_chunks picks by suffix
ChunkFile(f) ==
    CASE f.suffix = "rb"                -> ChunkRubyFile(f.path, f.lines)
      [] f.suffix \in {"yml", "yaml"}   -> ChunkYamlFile(f.path, f.lines)
      [] OTHER                          -> ChunkGenericFile(f.path, f.lines)

\* the chunks of the strategy before the length test (the generic ones when
\* the structured strategy kept nothing)
CandidatesOf(f) ==
    CASE f.suffix = "rb" ->
            IF SelectLong(RubyCandidates(f.path, f.lines), f.lines, MinCodeChars) = <<>>
            THEN GenericCandidates(f.path, f.lines)
            ELSE RubyCandidates(f.path, f.lines)
      [] f.suffix \in {"yml", "yaml"} ->
            IF SelectLong(YamlCandidates(f.path, f.lines), f.lines, MinYamlChars) = <<>>
            THEN GenericCandidates(f.path, f.lines)
            ELSE YamlCandidates(f.path, f.lines)
      [] OTHER -> GenericCandidates(f.path, f.lines)

----------------------------------------------------------------------------
(* The files the chunker is run on *)

\* longest file built line by line from the alphabets
MaxLines == 3

Blank == Line("blank", 0, 0, "None")

DefTop == Line("def", 0, 11, "process")

DefNested == Line("def", 2, 12, "helper")

ClassTop == Line("class", 0, 14, "Agent")

LongText == Line("text", 2, 60, "None")

ShortText == Line("text", 2, 8, "None")

TopKey == Line("key", 0, 9, "feature")

NestedKey == Line("key", 2, 40, "None")

HugeText == Line("text", 2, 4000, "None")

Repeat(l, n) == [i \in 1..n |-> l]

\* raises: open, read or the chunker raises on this file
File(p, sfx, ls) == [path |-> p, suffix |-> sfx, lines |-> ls, raises |-> FALSE]

BadFile(p, sfx) == [File(p, sfx, <<>>) EXCEPT !.raises = TRUE]

RubyLines == {Blank, DefTop, DefNested, ClassTop, LongText, ShortText}

YamlLines == {Blank, TopKey, NestedKey, HugeText, ShortText}

OtherLines == {Blank, LongText, ShortText}

\* files long enough for the 50-line window to slide
LongFiles ==
    {File("lib/long.py", "py", Repeat(LongText, n) \o Repeat(Blank, m)) :
        n \in {45, 50, 91}, m \in {0, 1, 6}}

Files ==
    {File("app/agent.rb", "rb", ls) : ls \in SeqsUpTo(RubyLines, MaxLines) \ {<<>>}}
    \cup {File("config/features.yml", "yml", ls) :
            ls \in SeqsUpTo(YamlLines, MaxLines) \ {<<>>}}
    \cup {File("lib/tool.py", "py", ls) : ls \in SeqsUpTo(OtherLines, MaxLines) \ {<<>>}}
    \cup LongFiles
    \cup {File("app/worker.rb", "rb", <<DefTop>> \o Repeat(LongText, 30))}

NoFile == File("none", "none", <<Blank>>)

ChunkIdle ==
    /\ file = NoFile
    /\ chunks = <<>>
    /\ chunked = FALSE

ChunkInit ==
    /\ file \in Files
    /\ chunks = <<>>
    /\ chunked = FALSE

\* the chunker applied to one file
ChunkOne ==
    /\ ~chunked
    /\ chunks' = ChunkFile(file)
    /\ chunked' = TRUE
    /\ UNCHANGED <<file, triageVars, indexVars,
                   resolveVars, auxVars>>

----------------------------------------------------------------------------
(* The embedding index: a collection is the list of its entries in         *)
(* insertion order, at most one entry per id.                              *)

\* most files of a code base, most pages of a space
MaxFiles == 2

\* largest top_k asked for
MaxTopK == 2

BatchSize == 1000
DefaultTopK == 10
PageChunkSize == 1000
PageChunkOverlap == 200
MinPageChars == 50
MinTailChars == 100

\* SentenceTransformer.encode: one vector per text, the same text always the
\* same vector
Embed(text) == <<SumWidth(text, 1, Len(text)) % 7, Len(text) % 3>>

\* the model CodeRAG names, and the default of ConfluenceRAG
DefaultModel == "all-MiniLM-L6-v2"

\* the models a vector_store configuration can name
ModelNames == {DefaultModel, "all-mpnet-base-v2"}

\* the vector a model gives: each model has its own space, the third
\* component says which
InSpace(model, v) == <<IF model = DefaultModel THEN v[1] ELSE (v[1] + 3) % 7, v[2], model>>

\* squared L2, the distance the collection reports
Distance(v, w) == (v[1] - w[1]) * (v[1] - w[1]) + (v[2] - w[2]) * (v[2] - w[2])

IdsOf(coll) == {coll[i].id : i \in 1..Len(coll)}

\* an add that never looks for the ids
AddAll(coll, batch) == coll \o batch

\* collection.upsert of a batch: an entry whose id the collection holds
\* replaces that entry in place, the others are added at the end in batch
\* order; of two entries of one id in the batch the later one stays
Upsert(coll, batch) ==
    LET Last(id) == SetMax({j \in 1..Len(batch) : batch[j].id = id})
        held == IdsOf(coll)
        sent == IdsOf(batch)
        FirstNew(j) == /\ batch[j].id \notin held
                       /\ \A k \in 1..(j - 1) : batch[k].id # batch[j].id
        fresh == SelectSeq([j \in 1..Len(batch) |-> j], FirstNew)
    IN  [i \in 1..Len(coll) |->
            IF coll[i].id \in sent THEN batch[Last(coll[i].id)] ELSE coll[i]]
        \o [k \in 1..Len(fresh) |-> batch[Last(batch[fresh[k]].id)]]

\* the chunks of one file as _extract_code_chunks collects them
FileChunks(f) ==
    LET cs == ChunkFile(f)
    IN  [i \in 1..Len(cs) |->
            [id |-> cs[i].id, text |-> SubSeq(f.lines, cs[i].from, cs[i].to),
             file |-> cs[i].file, start_line |-> cs[i].start_line,
             end_line |-> cs[i].end_line, name |-> cs[i].name,
             type |-> cs[i].type]]

\* an extraction that a failing file ends with nothing returned
RECURSIVE ExtractCodeChunksFatal(_)
ExtractCodeChunksFatal(files) ==
    IF files = <<>> THEN <<>>
    ELSE IF \E i \in 1..Len(files) : files[i].raises THEN <<>>
    ELSE FileChunks(Head(files)) \o ExtractCodeChunksFatal(Tail(files))

\* _extract_code_chunks: the chunks of every file, in file order; a file
\* that raises is reported and left out
RECURSIVE ExtractCodeChunks(_)
ExtractCodeChunks(files) ==
    IF files = <<>> THEN <<>>
    ELSE IF Head(files).raises THEN ExtractCodeChunks(Tail(files))
    ELSE FileChunks(Head(files)) \o ExtractCodeChunks(Tail(files))

\* ids, documents, embeddings and metadatas of CodeRAG._store_embeddings
CodeEntries(cs) ==
    [i \in 1..Len(cs) |->
        [id |-> cs[i].id, document |-> cs[i].text, embedding |-> InSpace(DefaultModel, Embed(cs[i].text)),
         metadata |-> [file |-> cs[i].file, start_line |-> cs[i].start_line,
                       end_line |-> cs[i].end_line, name |-> cs[i].name,
                       type |-> cs[i].type]]]

\* the upsert calls of one run: slices of batch_size entries
RECURSIVE StoreBatches(_, _, _)
StoreBatches(coll, entries, i) ==
    IF i >= Len(entries) THEN coll
    ELSE StoreBatches(Upsert(coll, SubSeq(entries, i + 1, Min2(i + BatchSize, Len(entries)))),
                      entries, i + BatchSize)

StoreCodeEmbeddings(coll, cs) == StoreBatches(coll, CodeEntries(cs), 0)

\* one upsert call: the store and the slice from..to of the entries it carries
Call(store, from, to) == [store |-> store, from |-> from, to |-> to]

\* for i in range(0, len(ids), batch_size): ids[i:i + batch_size]
RECURSIVE CodeCalls(_, _)
CodeCalls(n, i) ==
    IF i >= n THEN <<>>
    ELSE <<Call("code_embeddings", i + 1, Min2(i + BatchSize, n))>> \o CodeCalls(n, i + BatchSize)

\* Confluence pages: the content is length characters long and its last
\* tail characters are whitespace; a chunk text is the slice from..to of it
Page(id, n, t) == [page_id |-> id, title |-> id, space |-> "ENG",
                   content |-> [length |-> n, tail |-> t]]

Max2(a, b) == IF a >= b THEN a ELSE b

\* a slice index as Python reads it: a negative one counts from the end
SliceIndex(i, n) == IF i < 0 THEN Max2(0, i + n) ELSE Min2(i, n)

\* len(content[a:b].strip())
SliceStripLen(c, a, b) ==
    Max2(0, Min2(SliceIndex(b, c.length), c.length - c.tail) - SliceIndex(a, c.length))

\* f"{page.page_id}_{chunk_id}"
PageChunkId(page_id, chunk_id) == page_id \o "_" \o ToString(chunk_id)

\* the while loop of _chunk_documents for one page, from offset start on
RECURSIVE PageWindows(_, _, _, _, _)
PageWindows(pg, start, chunk_id, size, overlap) ==
    IF start >= pg.content.length THEN <<>>
    ELSE LET end == start + size
             to  == Min2(end, pg.content.length)
         IN  IF SliceStripLen(pg.content, start, to) < MinTailChars /\ chunk_id > 0
             THEN <<>>
             ELSE <<[id |-> PageChunkId(pg.page_id, chunk_id),
                     text |-> [of |-> pg.page_id, from |-> start, to |-> to],
                     page_id |-> pg.page_id, page_title |-> pg.title,
                     space |-> pg.space, chunk_index |-> chunk_id]>>
                  \o PageWindows(pg, end - overlap, chunk_id + 1, size, overlap)

RECURSIVE ChunkDocuments(_, _, _)
ChunkDocuments(ps, size, overlap) ==
    IF ps = <<>> THEN <<>>
    ELSE LET pg == Head(ps)
         IN  (IF SliceStripLen(pg.content, 0, pg.content.length) < MinPageChars
              THEN <<>>
              ELSE PageWindows(pg, 0, 0, size, overlap))
             \o ChunkDocuments(Tail(ps), size, overlap)

EmbedSlice(t) == <<(t.to - t.from) % 7, t.from % 3>>

\* ids, documents, embeddings and metadatas of ConfluenceRAG._store_embeddings
PageEntries(cs, model) ==
    [i \in 1..Len(cs) |->
        [id |-> cs[i].id, document |-> cs[i].text,
         embedding |-> InSpace(model, EmbedSlice(cs[i].text)),
         metadata |-> [page_id |-> cs[i].page_id, page_title |-> cs[i].page_title,
                       space |-> cs[i].space, chunk_index |-> cs[i].chunk_index]]]

\* one upsert call with everything
StorePageEmbeddings(coll, cs, model) == Upsert(coll, PageEntries(cs, model))

PageCalls(n) == <<Call("confluence_docs", 1, n)>>

\* collection.query: the n_results nearest entries, nearest first, entries
\* at the same distance in insertion order
RECURSIVE Nearest(_, _, _)
Nearest(coll, qv, k) ==
    IF k = 0 \/ coll = <<>> THEN <<>>
    ELSE LET best == CHOOSE i \in 1..Len(coll) :
                        \A j \in 1..Len(coll) :
                            \/ Distance(coll[i].embedding, qv) < Distance(coll[j].embedding, qv)
                            \/ /\ Distance(coll[i].embedding, qv) = Distance(coll[j].embedding, qv)
                               /\ i <= j
             rest == [j \in 1..(Len(coll) - 1) |-> IF j < best THEN coll[j] ELSE coll[j + 1]]
         IN  <<coll[best]>> \o Nearest(rest, qv, k - 1)

Questions == {"agent update flow", "feature flag"}

EmbedQuestion(q) == IF q = "feature flag" THEN <<3, 1>> ELSE <<0, 0>>

\* CodeRAG.query and ConfluenceRAG.query (top_k 0: not given)
RagQuery(coll, model, question, top_k, default_k) ==
    LET k   == IF top_k = 0 THEN default_k ELSE top_k
        qv  == InSpace(model, EmbedQuestion(question))
        hit == Nearest(coll, qv, k)
    IN  IF Len(coll) = 0 THEN <<>>
        ELSE [i \in 1..Len(hit) |->
                [chunk_id |-> hit[i].id, text |-> hit[i].document,
                 metadata |-> hit[i].metadata,
                 distance |-> Distance(hit[i].embedding, qv)]]

Out(api, wasEmpty, kind, items) ==
    [api |-> api, empty |-> wasEmpty, kind |-> kind, items |-> items]

\* get_context_for_llm of both RAG classes
ContextForLlm(coll, model, question, top_k, default_k) ==
    LET results == RagQuery(coll, model, question, top_k, default_k)
    IN  IF results = <<>> THEN [kind |-> "no_relevant_found", items |-> <<>>]
        ELSE [kind |-> "context", items |-> results]

\* SemanticCodeSearchTool._run
SemanticRun(coll, question, top_k) ==
    IF Len(coll) = 0 THEN [kind |-> "not_indexed", items |-> <<>>]
    ELSE LET results == RagQuery(coll, DefaultModel, question, top_k, DefaultTopK)
         IN  IF results = <<>> THEN [kind |-> "found_0", items |-> <<>>]
             ELSE [kind |-> "matches",
                   items |-> [i \in 1..Len(results) |->
                                [file |-> results[i].metadata.file,
                                 start_line |-> results[i].metadata.start_line,
                                 end_line |-> results[i].metadata.end_line,
                                 relevance_score |-> 1 - results[i].distance,
                                 code_snippet |-> results[i].text]]]

\* ConfluenceQueryTool._run
ConfluenceToolRun(coll, model, question) ==
    IF Len(coll) = 0 THEN [kind |-> "not_indexed", items |-> <<>>]
    ELSE ContextForLlm(coll, model, question, 5, 5)

\* most pages of a space
MaxPages == 1

SampleFiles ==
    {File("app/agent.rb", "rb", <<DefTop, LongText, DefNested, LongText>>),
     File("config/features.yml", "yml", <<TopKey, NestedKey, TopKey, HugeText>>),
     File("lib/long.py", "py", Repeat(LongText, 51))}

PageContents == {<<0, 0>>, <<40, 0>>, <<1050, 0>>, <<1650, 0>>}

PageLists ==
    {ps \in SeqsUpTo({Page(id, c[1], c[2]) : id \in {"p1", "p2", "p3"}, c \in PageContents},
                     MaxPages) :
        \A i \in 1..Len(ps) : ps[i].page_id = <<"p1", "p2", "p3">>[i]}

NoOut == Out("none", FALSE, "none", <<>>)

IndexIdle ==
    /\ codebase = <<>>
    /\ pages = <<>>
    /\ collection = <<>>
    /\ docs = <<>>
    /\ codeRuns = 0
    /\ docRuns = 0
    /\ embedName = DefaultModel
    /\ queryOut = NoOut
    /\ upserts = <<>>

\* _collect_files walks the tree: no path twice
Codebases ==
    {fs \in SeqsUpTo(SampleFiles, MaxFiles) :
        \A i, j \in 1..Len(fs) : i # j => fs[i].path # fs[j].path}

\* The two stores share no state: each is run over all its inputs with the
\* other one empty, and over one input with both filled.
IndexInputs ==
    {<<fs, <<>>>> : fs \in Codebases}
    \cup {<<<<>>, ps>> : ps \in PageLists}
    \cup {<<fs, ps>> : fs \in {c \in Codebases : Len(c) = 1},
                       ps \in {l \in PageLists : Len(l) = 1 /\ l[1].content.length > 1000}}

IndexInit ==
    /\ \E in \in IndexInputs : codebase = in[1] /\ pages = in[2]
    /\ collection = <<>>
    /\ docs = <<>>
    /\ codeRuns = 0
    /\ docRuns = 0
    /\ embedName \in ModelNames
    /\ queryOut = NoOut
    /\ upserts = <<>>

\* most index runs of one kind
MaxRuns == 2

\* index_codebase: collect, chunk, embed, store
IndexCodebase ==
    /\ codeRuns < MaxRuns
    /\ collection' = StoreCodeEmbeddings(collection, ExtractCodeChunks(codebase))
    /\ upserts' = CodeCalls(Len(ExtractCodeChunks(codebase)), 0)
    /\ codeRuns' = codeRuns + 1
    /\ UNCHANGED <<codebase, pages, docs, docRuns, embedName, queryOut, triageVars, chunkVars,
                   resolveVars, auxVars>>

\* index_confluence_pages: fetch, chunk, embed, store; nothing when the
\* loader returned no page
IndexConfluencePages ==
    /\ docRuns < MaxRuns
    /\ docs' = IF pages = <<>> THEN docs
               ELSE StorePageEmbeddings(docs,
                        ChunkDocuments(pages, PageChunkSize, PageChunkOverlap), embedName)
    /\ upserts' = IF pages = <<>> THEN <<>>
                   ELSE PageCalls(Len(ChunkDocuments(pages, PageChunkSize, PageChunkOverlap)))
    /\ docRuns' = docRuns + 1
    /\ UNCHANGED <<codebase, pages, collection, codeRuns, embedName, queryOut, triageVars, chunkVars,
                   resolveVars, auxVars>>

\* ConfluenceRAG.__init__ in a new process: the model named by the
\* configuration, the collection that persist_directory holds
NewConfluenceRag ==
    /\ embedName' \in ModelNames
    /\ UNCHANGED <<codebase, pages, upserts, collection, docs, codeRuns, docRuns, queryOut, triageVars,
                   chunkVars,
                   resolveVars, auxVars>>

QueryCode ==
    /\ \E q \in Questions, k \in 0..MaxTopK :
          queryOut' = Out("CodeRAG.query", Len(collection) = 0, "list",
                          RagQuery(collection, DefaultModel, q, k, DefaultTopK))
    /\ UNCHANGED <<codebase, pages, upserts, collection, docs, codeRuns, docRuns, embedName, triageVars,
                   chunkVars,
                   resolveVars, auxVars>>

QueryDocs ==
    /\ \E q \in Questions, k \in 0..MaxTopK :
          queryOut' = Out("ConfluenceRAG.query", Len(docs) = 0, "list",
                          RagQuery(docs, embedName, q, k, 5))
    /\ UNCHANGED <<codebase, pages, upserts, collection, docs, codeRuns, docRuns, embedName, triageVars,
                   chunkVars,
                   resolveVars, auxVars>>

DocsContextForLlm ==
    /\ \E q \in Questions, k \in 0..MaxTopK :
          LET r == ContextForLlm(docs, embedName, q, k, 5)
          IN  queryOut' = Out("ConfluenceRAG.get_context_for_llm", Len(docs) = 0,
                              r.kind, r.items)
    /\ UNCHANGED <<codebase, pages, upserts, collection, docs, codeRuns, docRuns, embedName, triageVars,
                   chunkVars,
                   resolveVars, auxVars>>

SemanticCodeSearch ==
    /\ \E q \in Questions, k \in 1..MaxTopK :
          LET r == SemanticRun(collection, q, k)
          IN  queryOut' = Out("semantic_code_search", Len(collection) = 0, r.kind, r.items)
    /\ UNCHANGED <<codebase, pages, upserts, collection, docs, codeRuns, docRuns, embedName, triageVars,
                   chunkVars,
                   resolveVars, auxVars>>

ConfluenceSearch ==
    /\ \E q \in Questions :
          LET r == ConfluenceToolRun(docs, embedName, q)
          IN  queryOut' = Out("confluence_search", Len(docs) = 0, r.kind, r.items)
    /\ UNCHANGED <<codebase, pages, upserts, collection, docs, codeRuns, docRuns, embedName, triageVars,
                   chunkVars,
                   resolveVars, auxVars>>

----------------------------------------------------------------------------
(* The ticket-analysis workflow of SifraAdvCrew.run: the log agent         *)
(* (detector, har_parser, query builder, haystack_search, triage rules),   *)
(* then the code-analysis task, then the Slack reply.  The agents are      *)
(* language models: the model follows the rules their task description     *)
(* and backstory state, and where two of those texts prescribe different   *)
(* things for the same input either can happen.                            *)

Tickets ==
    {[auth |-> a, harFile |-> TRUE, har |-> h, url |-> u] :
        a \in BOOLEAN, h \in Captures, u \in Urls}
    \cup {[auth |-> a, harFile |-> FALSE, har |-> <<>>, url |-> u] :
        a \in BOOLEAN, u \in Urls}

NoSearch == [source |-> "none", query |-> {}, gte |-> 0, lte |-> 0]

NoTriage == [decision |-> "none", first_response |-> "none", made |-> 0]

NoCode == [kind |-> "none", analysed |-> FALSE, message |-> "none"]

NoReply == [sent |-> FALSE, root_cause |-> "none", recommendation |-> "none"]

HarUsable == harOut.status = "parsed"

UrlUsable == urlDetect.status = "success"

\* PRIORITY 1..3 of the task, OPTION A..C of the backstory; for an
\* authentication ticket the backstory's rule 2 makes the Haystack URL the
\* primary source even when a HAR is there
Sources ==
    IF HarUsable
    THEN {"har_uuids"} \cup (IF ticket.auth /\ UrlUsable THEN {"haystack_url"} ELSE {})
    ELSE IF UrlUsable THEN {"haystack_url"}
    ELSE {"manual"}

\* [7 days ago from ticket creation, ticket creation]
LookbackWindow == <<Created - LookbackDays * 1440, Created>>

\* ticket creation time +-3 days
AroundWindow == <<Created - ManualDays * 1440, Created + ManualDays * 1440>>

HarParams ==
    {[source |-> "har_uuids", query |-> harOut.uuids,
      gte |-> IF harOut.earliest = 0 THEN LookbackWindow[1]
              ELSE harOut.earliest - BufferMinutes,
      lte |-> IF harOut.latest = 0 THEN LookbackWindow[2]
              ELSE harOut.latest + BufferMinutes]}

UrlParams ==
    {[source |-> "haystack_url", query |-> urlDetect.params.query,
      gte |-> urlDetect.params.gte, lte |-> urlDetect.params.lte]}

ManualParams ==
    {[source |-> "manual", query |-> {"account"}, gte |-> w[1], lte |-> w[2]] :
        w \in {LookbackWindow, AroundWindow}}

BuildParams(src) ==
    CASE src = "har_uuids"    -> HarParams
      [] src = "haystack_url" -> UrlParams
      [] OTHER                -> ManualParams

\* Rule 2, "If NEITHER HAR nor Haystack URL"
AuthWithoutArtifact == ticket.auth /\ ~ticket.harFile /\ ~UrlUsable

\* Rule 1 as the task description states it
Rule1Task == ~UrlUsable /\ logs = "no_results"

\* Rule 1 as the agent's backstory states it
Rule1Backstory == ~UrlUsable /\ ~ticket.harFile /\ logs = "no_results"

\* the decisions the rules prescribe for the evidence at hand
Prescribed ==
    (IF AuthWithoutArtifact THEN {"Escalate"} ELSE {})
    \cup (IF Rule1Task THEN {"InsufficientData"} ELSE {})
    \cup (IF ~AuthWithoutArtifact /\ ~Rule1Backstory THEN {"Proceed"} ELSE {})

FirstResponse(d) ==
    CASE d = "Escalate"         -> "provide_har_auth_issue"
      [] d = "InsufficientData" -> "reproduce_and_provide_logs"
      [] OTHER                  -> "none"

\* extract_uuids: bool = True, find_errors: bool = True
DefaultArgs == [extract_uuids |-> TRUE, find_errors |-> TRUE]

TriageIdle ==
    /\ stage = "idle"
    /\ ticket = [auth |-> FALSE, harFile |-> FALSE, har |-> <<>>, url |-> NoUrl]
    /\ harArgs = DefaultArgs
    /\ urlDetect = NoDetect
    /\ harOut = HarBlank("pending")
    /\ searchParams = NoSearch
    /\ searches = <<>>
    /\ logs = "none"
    /\ triage = NoTriage
    /\ codeOut = NoCode
    /\ reply = NoReply

TriageInit ==
    /\ stage = "detect"
    /\ ticket \in Tickets
    /\ harArgs = DefaultArgs
    /\ urlDetect = NoDetect
    /\ harOut = HarBlank("pending")
    /\ searchParams = NoSearch
    /\ searches = <<>>
    /\ logs = "none"
    /\ triage = NoTriage
    /\ codeOut = NoCode
    /\ reply = NoReply
    /\ ChunkIdle
    /\ IndexIdle
    /\ ResolveIdle /\ AuxIdle

\* WORKFLOW 1: haystack_url_detector on the ticket content
DetectUrl ==
    /\ stage = "detect"
    /\ \E outcome \in GotoOutcomes :
          /\ ticket.url.kind # "goto" => outcome = "discover"
          /\ urlDetect' = DetectorRun(ticket.url, outcome)
          /\ requests' = requests \o GotoRequests(ticket.url, outcome)
    /\ stage' = "har"
    /\ UNCHANGED <<ticket, harArgs, harOut, searchParams, searches, logs, triage, codeOut, reply,
                   chunkVars, indexVars, shortUrl, attempt, landed, resolved, auxVars>>

\* WORKFLOW 2: har_parser(file_path=..) when a HAR file is attached
ParseHar ==
    /\ stage = "har"
    /\ IF ticket.harFile
       THEN harOut' \in HarParserRun(ticket.har, harArgs.extract_uuids, harArgs.find_errors)
       ELSE harOut' = HarBlank("none")
    /\ stage' = "build"
    /\ UNCHANGED <<ticket, harArgs, urlDetect, searchParams, searches, logs, triage, codeOut, reply,
                   chunkVars, indexVars,
                   resolveVars, auxVars>>

\* WORKFLOW 3: pick the search strategy and build search_params
BuildQuery ==
    /\ stage = "build"
    /\ \E src \in Sources : searchParams' \in BuildParams(src)
    /\ stage' = "search"
    /\ UNCHANGED <<ticket, harArgs, urlDetect, harOut, searches, logs, triage, codeOut, reply,
                   chunkVars, indexVars,
                   resolveVars, auxVars>>

\* WORKFLOW 4: haystack_search with the five parameters
SearchLogs ==
    /\ stage = "search"
    /\ searches' = Append(searches, searchParams)
    /\ logs' \in {"success", "no_results"}
    /\ stage' = "triage"
    /\ UNCHANGED <<ticket, harArgs, urlDetect, harOut, searchParams, triage, codeOut, reply,
                   chunkVars, indexVars,
                   resolveVars, auxVars>>

\* Rule 2 answered straight away: its JSON carries no search_params
AnswerWithoutSearch ==
    /\ stage = "search"
    /\ AuthWithoutArtifact
    /\ stage' = "triage"
    /\ UNCHANGED <<ticket, harArgs, urlDetect, harOut, searchParams, searches, logs, triage,
                   codeOut, reply,
                   chunkVars, indexVars,
                   resolveVars, auxVars>>

\* TRIAGE RULES: the output JSON with or without first_response
Triage ==
    /\ stage = "triage"
    /\ \E d \in Prescribed :
          triage' = [decision |-> d, first_response |-> FirstResponse(d),
                     made |-> triage.made + 1]
    /\ stage' = "code"
    /\ UNCHANGED <<ticket, harArgs, urlDetect, harOut, searchParams, searches, logs, codeOut, reply,
                   chunkVars, indexVars,
                   resolveVars, auxVars>>

\* the analysis run whatever the triage output says
CodeResultAlways(t) == [kind |-> "analysis", analysed |-> TRUE, message |-> "none"]

\* analyze_code_task: skip the analysis when first_response is there
CodeResult(t) ==
    IF t.first_response # "none"
    THEN [kind |-> "triage_message", analysed |-> FALSE, message |-> t.first_response]
    ELSE [kind |-> "analysis", analysed |-> TRUE, message |-> "none"]

AnalyzeCode ==
    /\ stage = "code"
    /\ codeOut' = CodeResult(triage)
    /\ stage' = "slack"
    /\ UNCHANGED <<ticket, harArgs, urlDetect, harOut, searchParams, searches, logs, triage, reply,
                   chunkVars, indexVars,
                   resolveVars, auxVars>>

\* send_slack_response_task: the sections are filled from the earlier
\* results, "N/A" where a result is missing
SlackMessage(c) ==
    [sent |-> TRUE,
     root_cause |-> IF c.analysed THEN "analysis" ELSE "N/A",
     recommendation |-> IF c.kind = "triage_message" THEN c.message ELSE "fix"]

SendSlackResponse ==
    /\ stage = "slack"
    /\ reply' = SlackMessage(codeOut)
    /\ stage' = "done"
    /\ UNCHANGED <<ticket, harArgs, urlDetect, harOut, searchParams, searches, logs, triage, codeOut,
                   chunkVars, indexVars,
                   resolveVars, auxVars>>

TriageNext ==
    \/ DetectUrl
    \/ ParseHar
    \/ BuildQuery
    \/ SearchLogs
    \/ AnswerWithoutSearch
    \/ Triage
    \/ AnalyzeCode
    \/ SendSlackResponse

Spec == TriageInit /\ [][TriageNext]_vars

ChunkStart == ChunkInit /\ TriageIdle /\ IndexIdle /\ ResolveIdle /\ AuxIdle

SpecChunk == ChunkStart /\ [][ChunkOne]_vars

\* files that take the chunker through its branches: a preamble before the
\* first definition, a section split in two parts, the generic fallback, a
\* path that ends like an id
ExtractFiles ==
    {f \in SampleFiles : f.suffix # "yml"}
    \cup {File("app/models/ticket.rb", "rb",
                <<LongText, ClassTop, LongText, DefNested, LongText>>),
          File("config/big.yml", "yml",
                <<TopKey>> \o Repeat(NestedKey, YamlChunkSize + 1) \o <<TopKey, NestedKey>>),
          File("config/short.yml", "yml",
                <<TopKey, ShortText, TopKey, ShortText, TopKey, ShortText>>),
          File("lib/long.py:46", "py:46", <<LongText, LongText>>)}

ExtractInputs ==
    {<<fs, <<>>>> :
        fs \in {c \in SeqsUpTo(ExtractFiles, MaxFiles) :
                    \A i, j \in 1..Len(c) : i # j => c[i].path # c[j].path}}
    \cup {<<<<>>, ps>> : ps \in PageLists}

ExtractStart ==
    /\ \E in \in ExtractInputs : codebase = in[1] /\ pages = in[2]
    /\ collection = <<>>
    /\ docs = <<>>
    /\ codeRuns = 0
    /\ docRuns = 0
    /\ embedName = DefaultModel
    /\ queryOut = NoOut
    /\ upserts = <<>>
    /\ ChunkIdle
    /\ TriageIdle
    /\ ResolveIdle /\ AuxIdle

\* _extract_code_chunks over the collected files
ExtractChunks ==
    /\ ~chunked
    /\ chunks' = ExtractCodeChunks(codebase)
    /\ chunked' = TRUE
    /\ UNCHANGED <<file, triageVars, indexVars,
                   resolveVars, auxVars>>

\* code bases with files that raise among those that do not
BadFiles == {BadFile("app/locked.rb", "rb"), BadFile("lib/gone.py", "py")}

GoodFiles ==
    {f \in SampleFiles : f.suffix # "yml"}
    \cup {File("app/models/ticket.rb", "rb",
                <<LongText, ClassTop, LongText, DefNested, LongText>>)}

BadInputs ==
    {c \in SeqsUpTo(GoodFiles \cup BadFiles, MaxFiles + 1) :
        \A i, j \in 1..Len(c) : i # j => c[i].path # c[j].path}

BadStart ==
    /\ codebase \in BadInputs
    /\ pages = <<>>
    /\ collection = <<>>
    /\ docs = <<>>
    /\ codeRuns = 0
    /\ docRuns = 0
    /\ embedName = DefaultModel
    /\ queryOut = NoOut
    /\ upserts = <<>>
    /\ ChunkIdle
    /\ TriageIdle
    /\ ResolveIdle /\ AuxIdle

SpecBad == BadStart /\ [][ExtractChunks]_vars

ExtractNext ==
    \/ ExtractChunks
    \/ IndexConfluencePages

SpecExtract == ExtractStart /\ [][ExtractNext]_vars

\* har_parser called on a capture with any arguments
HarStart ==
    /\ stage = "har"
    /\ ticket \in {[auth |-> FALSE, harFile |-> TRUE, har |-> h, url |-> NoUrl] :
                       h \in Captures}
    /\ harArgs \in [extract_uuids : BOOLEAN, find_errors : BOOLEAN]
    /\ urlDetect = NoDetect
    /\ harOut = HarBlank("pending")
    /\ searchParams = NoSearch
    /\ searches = <<>>
    /\ logs = "none"
    /\ triage = NoTriage
    /\ codeOut = NoCode
    /\ reply = NoReply
    /\ ChunkIdle
    /\ IndexIdle
    /\ ResolveIdle /\ AuxIdle

SpecHar == HarStart /\ [][ParseHar]_vars

ResolveStart == ResolveInit /\ TriageIdle /\ ChunkIdle /\ IndexIdle /\ AuxIdle

ResolveNext ==
    \/ SendPublic
    \/ SendAuthenticated
    \/ ReturnFinal

SpecResolve == ResolveStart /\ [][ResolveNext]_vars

IndexNext ==
    \/ IndexCodebase
    \/ IndexConfluencePages
    \/ NewConfluenceRag
    \/ QueryCode
    \/ QueryDocs
    \/ DocsContextForLlm
    \/ SemanticCodeSearch
    \/ ConfluenceSearch

\* a space of 21 pages of 50 chunks each: more chunks than a batch holds
LongSpace ==
    [i \in 1..21 |-> Page("long" \o ToString(i), 50 * (PageChunkSize - PageChunkOverlap), 0)]

\* the stores filled from empty: small inputs, and the space of many chunks
StoreInputs ==
    {<<fs, ps>> : fs \in {c \in Codebases : Len(c) <= 1}, ps \in PageLists}
    \cup {<<<<>>, LongSpace>>}

StoreInit ==
    /\ \E in \in StoreInputs : codebase = in[1] /\ pages = in[2]
    /\ collection = <<>>
    /\ docs = <<>>
    /\ codeRuns = 0
    /\ docRuns = 0
    /\ embedName \in ModelNames
    /\ queryOut = NoOut
    /\ upserts = <<>>

StoreStart == StoreInit /\ TriageIdle /\ ChunkIdle /\ ResolveIdle /\ AuxIdle

StoreNext == IndexCodebase \/ IndexConfluencePages

SpecStore == StoreStart /\ [][StoreNext]_vars

----------------------------------------------------------------------------
(* _collect_files: the walk over the code base.  A file of the tree is     *)
(* given by the directories from codebase_path down to it, its name and    *)
(* its suffix.                                                              *)

\* most files of a tree
MaxTree == 2

\* self.exclude_dirs
ExcludeDirs == {".git", "node_modules", "tmp", "log", "coverage", "__pycache__",
                "vendor/bundle", "public/packs", "spec", "test"}

\* the suffixes of self.include_patterns
IncludeSuffixes == {"rb", "py", "js", "yml", "yaml"}

TreeFile(dirs, name, suffix) == [dirs |-> dirs, name |-> name, suffix |-> suffix]

TreeFiles ==
    {TreeFile(d, n[1], n[2]) :
        d \in {<<>>, <<"app">>, <<"vendor", "bundle">>, <<"app", "node_modules">>,
                <<"public", "packs", "js">>, <<"spec">>},
        n \in {<<"agent", "rb">>, <<"README", "md">>}}

\* os.walk yields no file twice
Trees ==
    {t \in SeqsUpTo(TreeFiles, MaxTree) : \A i, j \in 1..Len(t) : i # j => t[i] # t[j]}

\* dirs[:] = [d for d in dirs if d not in self.exclude_dirs], at every level
Descended(dirs) == \A i \in 1..Len(dirs) : dirs[i] \notin ExcludeDirs

\* any(Path(filename).match(pattern) for pattern in self.include_patterns)
Included(f) == f.suffix \in IncludeSuffixes

CollectFiles(t, max_files) ==
    LET Kept(f) == Descended(f.dirs) /\ Included(f)
        files   == SelectSeq(t, Kept)
    IN  IF max_files # 0 /\ Len(files) >= max_files
        THEN SubSeq(files, 1, max_files)
        ELSE files

WalkInit ==
    /\ tree \in Trees
    /\ maxFiles \in 0..MaxTree
    /\ collected = <<>>
    /\ walkDone = FALSE

Collect ==
    /\ ~walkDone
    /\ collected' = CollectFiles(tree, maxFiles)
    /\ walkDone' = TRUE
    /\ UNCHANGED <<tree, maxFiles, triageVars, chunkVars, indexVars, resolveVars, slackVars, loadVars, window>>

WalkStart ==
    WalkInit /\ TriageIdle /\ ChunkIdle /\ IndexIdle /\ ResolveIdle /\ SlackIdle /\ LoadIdle /\ WindowIdle

----------------------------------------------------------------------------
(* slack_tool and the routing of SifraAdvCrew.run.  A message is its ts,   *)
(* whether a mention pattern matches its text and whether a ticket URL     *)
(* pattern does.                                                           *)

\* most slack_reader calls in one process
MaxReads == 3

\* most replies posted
MaxPosts == 2

Read(kind, ts, mention, ticketUrl) ==
    [kind |-> kind, ts |-> ts, mention |-> mention, ticketUrl |-> ticketUrl]

\* conversations.history: a message, no message, or an exception
ReadResults ==
    {Read("message", ts, m, u) : ts \in {1, 2}, m \in BOOLEAN, u \in BOOLEAN}
    \cup {Read("none", 0, FALSE, FALSE), Read("error", 0, FALSE, FALSE)}

\* the globals after SlackReaderTool._run got r: they are assigned in the
\* branch of a message only
TsAfter(r, ts) == IF r.kind = "message" THEN r.ts ELSE ts

MentionAfter(r, mention) == IF r.kind = "message" THEN r.mention ELSE mention

\* a ticket URL pattern matches the text the reader returned: the cleaned
\* message, "No message found" or "Error reading Slack: .."
HasTicketUrl(r) == r.kind = "message" /\ r.ticketUrl

\* QueryRouterAgent.quick_route
QuickRoute(r) == IF HasTicketUrl(r) THEN "TICKET_ANALYSIS" ELSE "CODE_QUERY"

\* SlackReplyTool._run: a post into the thread of _last_message_ts, none
\* without one; the post is marked with the kind of the latest read
Replied(ts, r, sent) ==
    IF ts = 0 THEN sent ELSE Append(sent, [thread_ts |-> ts, after |-> r.kind])

\* the branches of SifraAdvCrew.run after the reader crew returned
Route(mention, r) ==
    IF mention /\ QuickRoute(r) = "CODE_QUERY"
    THEN [workflow |-> "code_assistant", status |-> "success",
          agents |-> {"query_picker", "code_assistant"}]
    ELSE IF ~mention /\ ~HasTicketUrl(r)
    THEN [workflow |-> "none", status |-> "ignored", agents |-> {"query_picker"}]
    ELSE [workflow |-> "ticket_analysis", status |-> "success",
          agents |-> {"query_picker", "support_ticket_reader", "account_agent",
                      "log_url_generator", "code_analyzer", "slack_responder"}]

SlackInit ==
    /\ lastMessageTs = 0
    /\ isSifraMention = FALSE
    /\ lastRead = NoRead
    /\ reads = 0
    /\ posts = <<>>
    /\ workflow = NoRun

\* slack_reader called outside run
SlackRead ==
    /\ reads < MaxReads
    /\ \E r \in ReadResults :
          /\ lastRead' = r
          /\ lastMessageTs' = TsAfter(r, lastMessageTs)
          /\ isSifraMention' = MentionAfter(r, isSifraMention)
    /\ reads' = reads + 1
    /\ UNCHANGED <<posts, workflow, triageVars, chunkVars, indexVars, resolveVars, walkVars, loadVars, window>>

\* slack_replier called outside run
SlackReply ==
    /\ Len(posts) < MaxPosts
    /\ posts' = Replied(lastMessageTs, lastRead, posts)
    /\ UNCHANGED <<lastMessageTs, isSifraMention, lastRead, reads, workflow,
                   triageVars, chunkVars, indexVars, resolveVars, walkVars, loadVars, window>>

\* SifraAdvCrew.run: the reader crew reads the last message, the routing
\* picks the workflow, and a workflow that runs ends with slack_replier
RunCrew ==
    /\ reads < MaxReads
    /\ Len(posts) < MaxPosts
    /\ \E r \in ReadResults :
          LET ts      == TsAfter(r, lastMessageTs)
              mention == MentionAfter(r, isSifraMention)
              went    == Route(mention, r)
              sent    == IF went.workflow = "none" THEN posts ELSE Replied(ts, r, posts)
          IN  /\ lastRead' = r
              /\ lastMessageTs' = ts
              /\ isSifraMention' = mention
              /\ posts' = sent
              /\ workflow' = [workflow |-> went.workflow, status |-> went.status,
                              agents |-> went.agents, replied |-> sent # posts,
                              read |-> r]
    /\ reads' = reads + 1
    /\ UNCHANGED <<triageVars, chunkVars, indexVars, resolveVars, walkVars, loadVars, window>>

SlackStart ==
    SlackInit /\ TriageIdle /\ ChunkIdle /\ IndexIdle /\ ResolveIdle /\ WalkIdle /\ LoadIdle /\ WindowIdle

----------------------------------------------------------------------------
(* ConfluenceLoader.get_all_descendant_pages: the pages of the space are   *)
(* PageIds, page 1 is the root; kids[p] is what get_child_pages(p)        *)
(* answers, in order, and get_page fails for the pages in failing.         *)

\* most children of one page
MaxKids == 2

\* the page ids of the space
PageIds == {1, 2, 3}

RootPage == 1

\* child lists: any pages, the page itself and its ancestors included
KidLists == {k \in SeqsUpTo(PageIds, MaxKids) : \A i, j \in 1..Len(k) : i # j => k[i] # k[j]}

Spaces == {[kids |-> k, failing |-> f] : k \in [PageIds -> KidLists],
                                           f \in {{}} \cup {{p} : p \in PageIds}}

\* a traversal that never looks at visited
InVisitedNever(page_id, seen) == FALSE

\* if page_id in visited
InVisited(page_id, seen) == page_id \in seen

Frame(page_id, kids) == [page |-> page_id, kids |-> kids]

LoadInit ==
    /\ space \in Spaces
    /\ calls = <<>>
    /\ visited = {}
    /\ fetched = <<>>
    /\ allPages = <<>>
    /\ loading = "start"

\* fetch_recursive(page_id) up to its for loop: the visited test, get_page,
\* the append to all_pages and get_child_pages; open is the calls above it
FetchRecursive(page_id, open) ==
    IF InVisited(page_id, visited)
    THEN /\ calls' = open
         /\ UNCHANGED <<visited, fetched, allPages>>
    ELSE /\ visited' = visited \cup {page_id}
         /\ fetched' = Append(fetched, page_id)
         /\ IF page_id \in space.failing
            THEN calls' = open /\ UNCHANGED allPages
            ELSE /\ allPages' = Append(allPages, page_id)
                 /\ calls' = Append(open, Frame(page_id, space.kids[page_id]))

\* fetch_recursive(root_page_id)
FetchRoot ==
    /\ loading = "start"
    /\ FetchRecursive(RootPage, <<>>)
    /\ loading' = "fetching"
    /\ UNCHANGED <<space, triageVars, chunkVars, indexVars, resolveVars, walkVars, slackVars, window>>

\* for child in children: fetch_recursive(child_id, depth + 1)
FetchChild ==
    /\ loading = "fetching"
    /\ calls # <<>>
    /\ calls[Len(calls)].kids # <<>>
    /\ LET top == calls[Len(calls)]
       IN  FetchRecursive(Head(top.kids),
                          [calls EXCEPT ![Len(calls)] = Frame(top.page, Tail(top.kids))])
    /\ UNCHANGED <<space, loading, triageVars, chunkVars, indexVars, resolveVars, walkVars,
                   slackVars, window>>

\* the for loop of a call is over: the call returns
FetchReturn ==
    /\ loading = "fetching"
    /\ calls # <<>>
    /\ calls[Len(calls)].kids = <<>>
    /\ calls' = SubSeq(calls, 1, Len(calls) - 1)
    /\ UNCHANGED <<space, visited, fetched, allPages, loading, triageVars, chunkVars, indexVars,
                   resolveVars, walkVars, slackVars, window>>

\* return all_pages
LoadReturn ==
    /\ loading = "fetching"
    /\ calls = <<>>
    /\ loading' = "returned"
    /\ UNCHANGED <<space, calls, visited, fetched, allPages, triageVars, chunkVars, indexVars,
                   resolveVars, walkVars, slackVars, window>>

LoadStart ==
    LoadInit /\ TriageIdle /\ ChunkIdle /\ IndexIdle /\ ResolveIdle /\ WalkIdle /\ SlackIdle /\ WindowIdle

LoadNext == FetchRoot \/ FetchChild \/ FetchReturn \/ LoadReturn

\* the traversal is one call running to its end: it takes its next step
SpecLoad == LoadStart /\ [][LoadNext]_vars /\ WF_vars(LoadNext)

----------------------------------------------------------------------------
(* The while loop of _chunk_documents, one iteration at a time, for the    *)
(* chunk_size and chunk_overlap a vector_store configuration can hold.     *)

\* most iterations followed
MaxWindows == 4

\* chunk_size and chunk_overlap: the defaults, and values a configuration
\* can name
WindowConfigs ==
    {<<PageChunkSize, PageChunkOverlap>>, <<PageChunkSize, 0>>, <<150, 50>>,
     <<PageChunkOverlap, PageChunkOverlap>>, <<PageChunkOverlap, PageChunkSize>>}

WindowContents == PageContents \cup {<<2500, 0>>, <<1700, 160>>}

WindowInit ==
    window \in {[at |-> "page", size |-> cfg[1], overlap |-> cfg[2],
                 content |-> [length |-> c[1], tail |-> c[2]],
                 start |-> 0, chunk_id |-> 0, made |-> <<>>] :
                    cfg \in WindowConfigs, c \in WindowContents}

\* if not page.content or len(page.content.strip()) < 50: continue
WindowSkip ==
    /\ window.at = "page"
    /\ window' = [window EXCEPT !.at =
                     IF SliceStripLen(window.content, 0, window.content.length) < MinPageChars
                     THEN "skipped" ELSE "loop"]
    /\ UNCHANGED <<triageVars, chunkVars, indexVars, resolveVars, walkVars, slackVars, loadVars>>

\* one iteration that appends a chunk
WindowChunk ==
    /\ window.at = "loop"
    /\ window.chunk_id < MaxWindows
    /\ window.start < window.content.length
    /\ LET end == window.start + window.size
       IN  /\ ~(SliceStripLen(window.content, window.start, end) < MinTailChars
                   /\ window.chunk_id > 0)
           /\ window' = [window EXCEPT
                           !.made = Append(@, <<window.start, end>>),
                           !.start = end - window.overlap,
                           !.chunk_id = @ + 1]
    /\ UNCHANGED <<triageVars, chunkVars, indexVars, resolveVars, walkVars, slackVars, loadVars>>

\* the loop ends: start is past the content, or the tiny chunk breaks it
WindowEnd ==
    /\ window.at = "loop"
    /\ \/ window.start >= window.content.length
       \/ /\ SliceStripLen(window.content, window.start, window.start + window.size)
                < MinTailChars
          /\ window.chunk_id > 0
    /\ window' = [window EXCEPT !.at = "done"]
    /\ UNCHANGED <<triageVars, chunkVars, indexVars, resolveVars, walkVars, slackVars, loadVars>>

WindowStart ==
    WindowInit /\ TriageIdle /\ ChunkIdle /\ IndexIdle /\ ResolveIdle /\ WalkIdle /\ SlackIdle
    /\ LoadIdle

WindowNext == WindowSkip \/ WindowChunk \/ WindowEnd

SpecWindow == WindowStart /\ [][WindowNext]_vars

SlackNext == SlackRead \/ SlackReply \/ RunCrew

SpecSlack == SlackStart /\ [][SlackNext]_vars

SpecWalk == WalkStart /\ [][Collect]_vars

IndexStart == IndexInit /\ TriageIdle /\ ChunkIdle /\ ResolveIdle /\ AuxIdle

SpecIndex == IndexStart /\ [][IndexNext]_vars

----------------------------------------------------------------------------
(* Claims about the query builder and the triage rules *)

PastBuild == stage \in {"search", "triage", "code", "slack", "done"}

PastTriage == stage \in {"code", "slack", "done"}

\* what the capture of the ticket yields: identifiers and start timestamps
CaptureIds == ExtractUuids(FailedRequests(ticket.har, TRUE), TRUE)

CaptureTimes == Timestamps(FailedRequests(ticket.har, TRUE))

\* C1: when the capture yielded at least one identifier and the URL resolved,
\* the search parameters are the capture's: source tag har_uuids, the query
\* made of capture identifiers only, the time range the capture's, and
\* nothing of the URL's parameters in them.
C1_CapturePathTakesPriority ==
    (PastBuild /\ HarUsable /\ UrlUsable) =>
        /\ searchParams.source = "har_uuids"
        /\ searchParams.query \subseteq CaptureIds
        /\ searchParams.query \cap urlDetect.params.query = {}
        /\ CaptureTimes # {} =>
              /\ searchParams.gte = SetMin(CaptureTimes) - BufferMinutes
              /\ searchParams.lte = SetMax(CaptureTimes) + BufferMinutes

\* C2: a ticket with an authentication keyword, no capture and no resolvable
\* URL never has a log search issued, and its triage decision is Escalate.
C2_AuthEscalationWithoutSearch ==
    (stage # "detect" /\ AuthWithoutArtifact) =>
        /\ searches = <<>>
        /\ PastTriage => triage.decision = "Escalate"

C4_InsufficientDataRule ==
    PastTriage =>
        (triage.decision = "InsufficientData"
            <=> (~ticket.harFile /\ ~UrlUsable /\ logs = "no_results"))

\* C5: at the triage step the rules prescribe exactly one decision for the
\* evidence at hand, and a decision is made at most once per invocation.
C5_ExactlyOneDecision ==
    /\ stage = "triage" => Cardinality(Prescribed) = 1
    /\ triage.made <= 1
    /\ PastTriage => triage.decision \in {"Proceed", "Escalate", "InsufficientData"}

\* C6: every search handed to haystack_search has timestamp_gte <= timestamp_lte.
C6_TimeRangeValid ==
    \A i \in 1..Len(searches) : searches[i].gte <= searches[i].lte

\* C7: on the capture path the query is exactly the identifiers the capture
\* yields, and the time range is its earliest start minus 30 minutes to its
\* latest start plus 30 minutes.
C7_CapturePathParameters ==
    (PastBuild /\ searchParams.source = "har_uuids" /\ CaptureTimes # {}) =>
        /\ searchParams.query = CaptureIds
        /\ searchParams.gte = SetMin(CaptureTimes) - BufferMinutes
        /\ searchParams.lte = SetMax(CaptureTimes) + BufferMinutes

----------------------------------------------------------------------------
(* Claims about the chunker and the index *)

Covers(c, n) == c.start_line <= n /\ n <= c.end_line

MinChars(c) ==
    IF c.type \in {"yaml_section", "yaml_section_part"} THEN MinYamlChars ELSE MinCodeChars

BuiltWith(coll, model) == \A i \in 1..Len(coll) : coll[i].embedding[3] = model

\* C9: an index run that follows an earlier run over the same files (pages)
\* with the same embedding model leaves the collection exactly as it was:
\* same entries, same order, same count.
C9_ReindexChangesNothing ==
    [][/\ (codeRuns >= 1 /\ codeRuns' = codeRuns + 1) => collection' = collection
       /\ (docRuns >= 1 /\ docRuns' = docRuns + 1 /\ BuiltWith(docs, embedName))
             => docs' = docs]_vars

C9_Witness ==
    /\ codeRuns = 2
    /\ docRuns = 2
    /\ Len(collection) > 1
    /\ Len(docs) > 1

\* C10: a query on an empty index returns the "not indexed" signal.
C10_EmptyIndexSignal ==
    (queryOut.api # "none" /\ queryOut.empty) => queryOut.kind = "not_indexed"

DocApis == {"ConfluenceRAG.query", "ConfluenceRAG.get_context_for_llm", "confluence_search"}

\* C11: a documentation query made with a model other than the one that
\* produced the vectors of the collection is flagged as invalid.
C11_OtherModelFlagged ==
    [][(queryOut' # queryOut /\ queryOut'.api \in DocApis /\ ~BuiltWith(docs, embedName))
          => queryOut'.kind = "invalid"]_vars

Distinct(cs) == \A i, j \in 1..Len(cs) : i # j => cs[i].id # cs[j].id

\* C12: the chunks of one index run have pairwise different ids, those of the
\* code files and those of the pages; storing the page chunks therefore
\* leaves one entry per chunk.
C12_UniqueChunkIds ==
    /\ chunked => Distinct(chunks)
    /\ docRuns >= 1 =>
          LET cs == ChunkDocuments(pages, PageChunkSize, PageChunkOverlap)
          IN  Distinct(cs) /\ (pages # <<>> => Len(docs) = Len(cs))

C12_Witness ==
    /\ chunked
    /\ \E i, j \in 1..Len(chunks) :
          /\ chunks[i].name.part = 2
          /\ chunks[j].file # chunks[i].file
          /\ chunks[j].start_line = 0

\* the configured maximum: chunk_size for code, twice yaml_chunk_size (the
\* size from which a section counts as too large) for YAML
MaxChars(c) ==
    IF c.type \in {"yaml_section", "yaml_section_part"} THEN YamlChunkSize * 2 ELSE ChunkSize

\* C13: the text of every emitted chunk is no longer than the configured
\* maximum.
C13_ChunkSizeBound ==
    chunked =>
        \A i \in 1..Len(chunks) :
            TextLen(file.lines, chunks[i].from, chunks[i].to) <= MaxChars(chunks[i])

\* C14: a chunk that begins at a definition runs to the line before the next
\* definition of the same or a shallower indentation, or to the end of the
\* file.
C14_NestedBodyInOneChunk ==
    chunked =>
        \A i \in 1..Len(chunks) :
            chunks[i].type \in {"class", "module", "method"} =>
                LET s   == chunks[i].start_line
                    nxt == {k \in (s + 1)..Len(file.lines) :
                              /\ IsDef(file.lines[k])
                              /\ file.lines[k].indent <= file.lines[s].indent}
                IN  chunks[i].end_line =
                        IF nxt = {} THEN Len(file.lines) ELSE SetMin(nxt) - 1

\* C15: no request that carries the cookies is the first request for a URL;
\* one is sent only after a request without cookies ended on a login page.
C15_CookiesOnlyAfterLogin ==
    \A i \in 1..Len(requests) :
        requests[i].cookies =>
            /\ i > 1
            /\ ~requests[i - 1].cookies
            /\ requests[i - 1].login

\* C16: expand_goto_url returns a URL only when its last request ended on a
\* discover URL that does not pass for a login page, returns null after a
\* login page, another destination, a timeout or a network error, and sends
\* at most two requests.
C16_ResolutionResult ==
    /\ Len(requests) <= 2
    /\ attempt = "returned" =>
          /\ resolved # NoFinal =>
                /\ landed = "discover"
                /\ ~LooksLikeLogin(landed, shortUrl)
                /\ resolved = [shortUrl EXCEPT !.kind = "discover"]
          /\ landed \in {"login", "other", "timeout", "error"} => resolved = NoFinal

C16_Witness ==
    /\ attempt = "returned"
    /\ resolved # NoFinal
    /\ Len(requests) = 2

\* the entries of the capture that pass the filter, by position
Filtered == {i \in 1..Len(ticket.har) :
                harArgs.find_errors => ticket.har[i].status >= FailStatus}

\* C17: for a capture with a failed entry, the result carries the total and
\* failed counts and the start timestamps of all the filtered entries, found
\* identifiers or not.
C17_TimestampsAndCounts ==
    (stage \notin {"detect", "har"} /\ ticket.harFile /\ Filtered # {}) =>
        LET times == {ticket.har[i].started : i \in Filtered} \ {0}
        IN  /\ harOut.total = Len(ticket.har)
            /\ harOut.failed = Cardinality(Filtered)
            /\ times # {} =>
                  /\ harOut.earliest = SetMin(times)
                  /\ harOut.latest = SetMax(times)

\* the first ten filtered entries
FirstFiltered == {i \in Filtered : Cardinality({j \in Filtered : j < i}) < EntryLimit}

\* C18: the failed count is the number of entries that pass the filter
\* (status >= 400 with error focus, all without), and every identifier of the
\* result comes from one of the first ten of them.
C18_FilterAndFirstTen ==
    harOut.status = "parsed" =>
        /\ harOut.failed = Cardinality(Filtered)
        /\ harOut.uuids \subseteq UNION {ticket.har[i].uuids : i \in FirstFiltered}
        /\ harOut.found = Cardinality(UNION {ticket.har[i].uuids : i \in FirstFiltered})

C18_Witness ==
    /\ harOut.status = "parsed"
    /\ harArgs.find_errors
    /\ Cardinality(Filtered) > EntryLimit
    /\ \E i \in Filtered \ FirstFiltered : ticket.har[i].uuids \cap harOut.uuids = {}

C20_ManualLookback ==
    searchParams.source = "manual" =>
        /\ searchParams.gte = Created - LookbackDays * 1440
        /\ searchParams.lte = Created

\* C21: every upsert call of an index run carries at most the maximum batch
\* size of entries, in the code index and in the documentation index, and
\* the calls of one run are consecutive slices of the entries.
C21_BatchedUpsert ==
    \A i \in 1..Len(upserts) :
        /\ upserts[i].to - upserts[i].from + 1 <= BatchSize
        /\ upserts[i].from = IF i = 1 THEN 1 ELSE upserts[i - 1].to + 1

\* C22: no relevance score of a returned match lies below 0 or above 1, and
\* the matches come in the store's order, the nearest first.
C22_ScoreInRange ==
    (queryOut.api = "semantic_code_search" /\ queryOut.kind = "matches") =>
        \A i \in 1..Len(queryOut.items) :
            /\ queryOut.items[i].relevance_score >= 0
            /\ queryOut.items[i].relevance_score <= 1
            /\ i > 1 => queryOut.items[i - 1].relevance_score
                           >= queryOut.items[i].relevance_score

\* the directory names an exclusion entry is made of
Components(entry) ==
    CASE entry = "vendor/bundle" -> <<"vendor", "bundle">>
      [] entry = "public/packs"  -> <<"public", "packs">>
      [] OTHER                   -> <<entry>>

\* the directories dirs lead through a directory named by the entry
Under(dirs, entry) ==
    LET c == Components(entry)
    IN  \E i \in 1..Len(dirs) :
            i + Len(c) - 1 <= Len(dirs) /\ SubSeq(dirs, i, i + Len(c) - 1) = c

\* C23: no collected file lies under a directory named by an entry of the
\* exclusion list, at any depth, for every entry of the list.
C23_NoExcludedDirectory ==
    \A i \in 1..Len(collected) : \A e \in ExcludeDirs : ~Under(collected[i].dirs, e)

\* the chunks of the extraction that came from the file at path p
ChunksOf(p) == LET From(c) == c.file = p IN SelectSeq(chunks, From)

PlaceOf(p) == CHOOSE i \in 1..Len(codebase) : codebase[i].path = p

\* C24: a file that raises gives no chunk, every other file gives exactly
\* its own chunks in their order, and the chunks come in file order.
C24_BadFileNotFatal ==
    chunked =>
        /\ \A i \in 1..Len(codebase) :
              LET f == codebase[i]
              IN  IF f.raises THEN ChunksOf(f.path) = <<>>
                  ELSE /\ Len(ChunksOf(f.path)) = Len(ChunkFile(f))
                       /\ \A k \in 1..Len(ChunkFile(f)) :
                             ChunksOf(f.path)[k].id = ChunkFile(f)[k].id
        /\ \A a, b \in 1..Len(chunks) :
              a < b => PlaceOf(chunks[a].file) <= PlaceOf(chunks[b].file)

C24_Witness ==
    /\ chunked
    /\ Len(codebase) = 3
    /\ ~codebase[1].raises /\ codebase[2].raises /\ ~codebase[3].raises
    /\ ChunksOf(codebase[1].path) # <<>>
    /\ ChunksOf(codebase[3].path) # <<>>

\* C25: when the request without cookies ends on a discover URL, no request
\* with cookies is sent and expand_goto_url returns that URL, whatever the
\* search text of the URL is.
C25_PublicLinkResolves ==
    (Len(requests) >= 1 /\ ~requests[1].cookies /\ requests[1].outcome = "discover") =>
        /\ \A i \in 1..Len(requests) : ~requests[i].cookies
        /\ attempt = "returned" => resolved = [shortUrl EXCEPT !.kind = "discover"]

\* C26: the thread timestamp and the mention flag are those of the message
\* the most recent slack_reader call returned, and after a read that failed
\* or found no message neither is in effect: the flag is false and nothing
\* is posted.
C26_StateFollowsLatestRead ==
    /\ lastRead.kind = "message" =>
          lastMessageTs = lastRead.ts /\ isSifraMention = lastRead.mention
    /\ lastRead.kind \in {"none", "error"} => lastMessageTs = 0 /\ ~isSifraMention
    /\ \A i \in 1..Len(posts) : posts[i].after = "message"

\* C28: a run ends in code_assistant exactly when its message is a mention
\* without a ticket URL, in ticket_analysis exactly when the message holds a
\* ticket URL, and in none exactly when it has neither; a run that ends in
\* none is ignored, runs the message reader only and posts no reply.
C28_WorkflowRouting ==
    workflow # NoRun =>
        LET mention == workflow.read.kind = "message" /\ workflow.read.mention
            url     == workflow.read.kind = "message" /\ workflow.read.ticketUrl
        IN  /\ workflow.workflow = "code_assistant" <=> (mention /\ ~url)
            /\ workflow.workflow = "ticket_analysis" <=> url
            /\ workflow.workflow = "none" <=> (~mention /\ ~url)
            /\ workflow.workflow = "none" =>
                  /\ workflow.status = "ignored"
                  /\ workflow.agents = {"query_picker"}
                  /\ ~workflow.replied

\* C27: every identifier extracted from the first ten filtered entries is in
\* the list of identifiers har_parser returns.
C27_NoIdentifierDropped ==
    harOut.status = "parsed" =>
        harOut.uuids = UNION {ticket.har[i].uuids : i \in FirstFiltered}

\* the pages a path of pages that load leads to from the root
RECURSIVE ReachedIn(_, _)
ReachedIn(found, n) ==
    IF n = 0 THEN found
    ELSE ReachedIn(found \cup {k \in PageIds :
                                 \E p \in found \ space.failing :
                                    \E i \in 1..Len(space.kids[p]) : space.kids[p][i] = k},
                   n - 1)

Reached == ReachedIn({RootPage}, Cardinality(PageIds))

NoRepeat(ids) == \A i, j \in 1..Len(ids) : i # j => ids[i] # ids[j]

LoadSafe ==
    /\ NoRepeat(fetched)
    /\ NoRepeat(allPages)
    /\ Range(allPages) \cap space.failing = {}
    /\ Range(allPages) \subseteq Reached
    /\ loading = "returned" => Range(allPages) = Reached \ space.failing

\* C29: on every page graph the traversal returns, no page id is fetched
\* twice, no page is returned twice, and the pages returned are those that
\* a path of loadable pages leads to from the root.
C29_TraversalTerminates == []LoadSafe /\ <>(loading = "returned")

C29_Witness ==
    /\ loading = "returned"
    /\ space.failing = {2}
    /\ space.kids[1] = <<2, 3>> /\ space.kids[2] = <<3>> /\ space.kids[3] = <<1, 3>>
    /\ allPages = <<1, 3>>

\* C30: the window start strictly increases on every iteration of the loop
\* of _chunk_documents, for every chunk_size and chunk_overlap.
C30_WindowStartIncreases ==
    [][(window.at = "loop" /\ window'.at = "loop" /\ window'.chunk_id = window.chunk_id + 1)
          => window'.start > window.start]_vars

====
